---- MODULE Spec2Model ----
(***************************************************************************)
(* Real-estate analytics service (BantPawan/Pawan-Project).                *)
(*                                                                         *)
(* The repository ships the same FastAPI service in several files.  The    *)
(* variable build says which one is running:                               *)
(*   "main"  FastAPI_Real_Estate_API/main.py                               *)
(*   "app1"  FastAPI_Real_Estate_API/backend/app (1).py                    *)
(*   "app"   FastAPI_Real_Estate_API/backend/app.py                        *)
(*   "appd"  FastAPI_Real_Estate_API/backend/app-.py                       *)
(*                                                                         *)
(* Fixed-point units: prices 1/10000 crore, log-prices 1/100, similarity   *)
(* cells 1/10000, combined scores 1/100000, stored distances meters,       *)
(* radius 1/1000 km, reported distances 1/100 km.                          *)
(*                                                                         *)
(* evals counts the evaluations of the combined similarity matrix, calls   *)
(* and frames hold recommend calls in flight, loader one call of           *)
(* load_pickle step by step, and chat one call of split_text or            *)
(* format_response of the research assistant (src/AI-LLM/app .py).         *)
(***************************************************************************)
EXTENDS Integers, Sequences, FiniteSets, TLC

\* hashseed is the salt of str hashes of the running interpreter, which
\* backend/app.py reads through hash(property_name)
VARIABLES build, hashseed, phase, disk, df, pipeline, location_df,
          cosine_sim1, cosine_sim2, cosine_sim3, req, resp, evals,
          calls, frames, chat, loader

vars == <<build, hashseed, phase, disk, df, pipeline, location_df,
          cosine_sim1, cosine_sim2, cosine_sim3, req, resp, evals,
          calls, frames, chat, loader>>

artifacts == <<df, pipeline, location_df, cosine_sim1, cosine_sim2, cosine_sim3>>

\* the state of the real-estate service; chat is the state of the research
\* assistant of src/AI-LLM, loader the state of one call of load_pickle
service == <<build, hashseed, phase, disk, artifacts, req, resp, evals, calls,
             frames>>

(***************************************************************************)
(* Bounds of the model.                                                    *)
(***************************************************************************)
\* number of rows of the distance table (the universe of properties)
NumProps == 3
\* evals counts the evaluations of the combined matrix up to MaxEvals
MaxEvals == 2
\* number of recommend calls in flight at once
NumClients == 2
\* longest text handed to split_text, in characters
MaxText == 5
\* largest chunk_size and overlap handed to split_text
MaxChunk == 3
\* iterations of the loop of split_text that are followed
MaxIter == 4
\* most lines of a response handed to format_response
MaxLines == 3
\* number of terms of the series that evaluates exp(x) - 1
ExpTerms == 12

(***************************************************************************)
(* Program constants.                                                      *)
(***************************************************************************)
\* 0.22 crore, the half width of the price band
ConfidenceInterval == 2200
\* 0.1 crore, the floor of the low bound in backend/app-.py
LowFloor == 1000
\* weights of the three similarity matrices: 0.5, 0.8, 1.0 (in tenths)
Weight1 == 5
Weight2 == 8
Weight3 == 10
\* results kept by backend/app.py and backend/app-.py location_search
SearchLimitApp == 10
SearchLimitAppd == 20

Builds == {"main", "app1", "app", "appd"}

AllNames == <<"P1", "P2", "P3", "P4", "P5", "P6", "P7", "P8", "P9", "P10", "P11", "P12">>
PropIndex == SubSeq(AllNames, 1, NumProps)
UnknownProperty == "Nowhere Heights"
Locations == {"Loc_A", "Loc_B"}
UnknownLocation == "Loc_Z"
\* 1.0 as a similarity cell and as a price
One == 100 * 100

SeqToSet(s) == {s[i] : i \in 1..Len(s)}
Min(a, b) == IF a <= b THEN a ELSE b
\* the smaller taken where the larger is meant
Lesser(a, b) == IF a <= b THEN a ELSE b
Max(a, b) == IF a >= b THEN a ELSE b

(***************************************************************************)
(* pandas / numpy values.                                                  *)
(***************************************************************************)
\* pd.DataFrame(): no rows, no columns
EmptyFrame == [index |-> <<>>, columns |-> {}, col |-> <<>>]
\* DataFrame.empty: an axis of length 0
IsEmpty(frame) == Len(frame.index) = 0 \/ frame.columns = {}
\* None
None == [kind |-> "None"]
\* np.array([])
EmptyArray == [kind |-> "ndarray", rows |-> <<>>]
NdArray(m) == [kind |-> "ndarray", rows |-> m]
\* ndarray.size
Size(a) == IF Len(a.rows) = 0 THEN 0 ELSE Len(a.rows) * Len(a.rows[1])

(***************************************************************************)
(* Outcome of a Python call: a returned value or a raised exception.       *)
(***************************************************************************)
Return(v) == [out |-> "return", value |-> v]
Raise(type, status, detail, cause) ==
    [out |-> "raise", exc |-> type, status |-> status, detail |-> detail, cause |-> cause]
\* raise HTTPException(status_code=status, detail=detail)
HTTPException(status, detail) == Raise("HTTPException", status, detail, "")
\* raise HTTPException(status_code=status, detail=f"{detail}: {str(e)}")
HTTPExceptionFrom(status, detail, e) ==
    Raise("HTTPException", status, detail, IF e.exc = "HTTPException" THEN e.detail ELSE e.exc)
\* any other exception
Error(type) == Raise(type, 0, "", "")

(***************************************************************************)
(* The artifacts an offline export writes to Dataset/.                     *)
(***************************************************************************)
\* df.pkl: the property table; only its sector column is read
DfTable ==
    [index |-> <<"r1", "r2">>, columns |-> {"sector"},
     col |-> [c \in {"sector"} |-> <<"sector 1", "sector 2">>]]

\* location_distance.pkl: rows = properties, columns = locations, meters
Frame(colA, colB) ==
    [index |-> PropIndex, columns |-> Locations,
     col |-> [l \in Locations |-> IF l = "Loc_A" THEN colA ELSE colB]]
ColA == [i \in 1..NumProps |-> IF i = 1 THEN 500 ELSE IF i = 2 THEN 1500 ELSE 2000]
ColB == [i \in 1..NumProps |-> 1496 + 1000 * (i - 1)]
LocTable == Frame(ColA, ColB)
\* a distance table with one row more than backend/app.py returns: row i is
\* 100 * i meters from Loc_A and step * i meters from Loc_B
LargeTable(step) ==
    [index |-> SubSeq(AllNames, 1, SearchLimitApp + 1), columns |-> Locations,
     col |-> [l \in Locations |->
                [i \in 1..(SearchLimitApp + 1) |->
                   IF l = "Loc_A" THEN 100 * i ELSE step * i]]]

\* pipeline_compressed.pkl: a fitted pipeline, opaque to the service.  Its
\* encoder knows a vocabulary of sectors and property types and rejects
\* anything else; the regressor is linear in log-price space.
Pipeline(intercept) ==
    [kind |-> "Pipeline", intercept |-> intercept, area_coef |-> 10,
     sectors |-> {"sector 1", "sector 2"}, types |-> {"flat", "house"}]
\* joblib.dump({}, "pipeline_compressed.pkl"): the placeholder of
\* data_preparation.py, a dict
PlaceholderPipeline == [kind |-> "dict"]

\* cosine_sim*.pkl: cosine similarity of one-hot feature vectors: 1 for two
\* properties of the same group, 0 otherwise
OneHotSim(g) ==
    [i \in DOMAIN g |-> [j \in DOMAIN g |-> IF g[i] = g[j] THEN One ELSE 0]]
SimFamily(n) == {OneHotSim(g) : g \in {h \in [1..n -> {0, 1}] : h[1] = 0}}
\* the matrices of the shipped export: property i is in group i % (k+1)
DefaultSim(k, n) == OneHotSim([i \in 1..n |-> i % (k + 1)])

Missing == [st |-> "missing"]
Corrupt == [st |-> "corrupt"]
File(data) == [st |-> "ok", data |-> data]
\* a file joblib cannot read and pickle can
PickleOnly(data) == [st |-> "pickle", data |-> data]

(***************************************************************************)
(* load_pickle: FileNotFoundError for a missing file, else joblib.load,    *)
(* and pickle.load when joblib raises.                                     *)
(***************************************************************************)
\* joblib.load(file_path)
joblib_load(file) ==
    IF file.st = "missing" THEN Error("FileNotFoundError")
    ELSE IF file.st = "ok" THEN Return(file.data)
    ELSE Error("ValueError")
\* with open(file_path, "rb") as f: pickle.load(f)
pickle_load(file) ==
    IF file.st = "missing" THEN Error("FileNotFoundError")
    ELSE IF file.st \in {"ok", "pickle"} THEN Return(file.data)
    ELSE Error("UnpicklingError")

load_pickle(file) ==
    IF file.st = "missing" THEN Error("FileNotFoundError")
    ELSE IF joblib_load(file).out = "return" THEN joblib_load(file)
    ELSE pickle_load(file)

\* one call of load_pickle, step by step; attempts lists the deserializers
\* that were run
NoLoad == [pc |-> "none"]

\* load_pickle without the test of os.path.exists
load_pickle_unchecked ==
    /\ loader.pc = "call"
    /\ loader' = [loader EXCEPT !.pc = "joblib"]
    /\ UNCHANGED <<service, chat>>

\* if not os.path.exists(file_path): raise FileNotFoundError
load_pickle_exists ==
    /\ loader.pc = "call"
    /\ loader' = IF loader.file.st = "missing"
                 THEN [loader EXCEPT !.pc = "done",
                                     !.outcome = Error("FileNotFoundError")]
                 ELSE [loader EXCEPT !.pc = "joblib"]
    /\ UNCHANGED <<service, chat>>

\* try: return joblib.load(file_path)
load_pickle_joblib ==
    /\ loader.pc = "joblib"
    /\ loader' = IF joblib_load(loader.file).out = "return"
                 THEN [loader EXCEPT !.pc = "done",
                                     !.attempts = Append(@, "joblib"),
                                     !.outcome = joblib_load(loader.file)]
                 ELSE [loader EXCEPT !.pc = "pickle",
                                     !.attempts = Append(@, "joblib")]
    /\ UNCHANGED <<service, chat>>

\* except Exception: return pickle.load(f)
load_pickle_pickle ==
    /\ loader.pc = "pickle"
    /\ loader' = [loader EXCEPT !.pc = "done",
                                !.attempts = Append(@, "pickle"),
                                !.outcome = pickle_load(loader.file)]
    /\ UNCHANGED <<service, chat>>

Loaded(file) == load_pickle(file).out = "return"

(***************************************************************************)
(* Module-level artifact loading, one action per file.                     *)
(***************************************************************************)
\* main.py 11-21: one try block; FileNotFoundError is re-raised, anything
\* else is not caught: the import fails and the service never starts.
Load_main ==
    /\ build = "main" /\ phase = "boot"
    /\ IF /\ Loaded(disk.df) /\ Loaded(disk.pipeline) /\ Loaded(disk.location)
          /\ Loaded(disk.sim1) /\ Loaded(disk.sim2) /\ Loaded(disk.sim3)
       THEN /\ phase' = "serving"
            /\ df' = disk.df.data
            /\ pipeline' = disk.pipeline.data
            /\ location_df' = disk.location.data
            /\ cosine_sim1' = NdArray(disk.sim1.data)
            /\ cosine_sim2' = NdArray(disk.sim2.data)
            /\ cosine_sim3' = NdArray(disk.sim3.data)
       ELSE /\ phase' = "crashed"
            /\ UNCHANGED artifacts
    /\ UNCHANGED <<build, hashseed, disk, req, resp, evals, calls, frames, chat, loader>>

\* backend/app (1).py 75-106: df, pipeline and location_df each in a try of
\* their own; the three matrices share one try.
Load_app1 ==
    /\ build = "app1" /\ phase = "boot"
    /\ phase' = "serving"
    /\ df' = IF Loaded(disk.df) THEN disk.df.data ELSE EmptyFrame
    /\ pipeline' = IF Loaded(disk.pipeline) THEN disk.pipeline.data ELSE None
    /\ location_df' = IF Loaded(disk.location) THEN disk.location.data ELSE EmptyFrame
    /\ IF Loaded(disk.sim1) /\ Loaded(disk.sim2) /\ Loaded(disk.sim3)
       THEN /\ cosine_sim1' = NdArray(disk.sim1.data)
            /\ cosine_sim2' = NdArray(disk.sim2.data)
            /\ cosine_sim3' = NdArray(disk.sim3.data)
       ELSE /\ cosine_sim1' = None
            /\ cosine_sim2' = None
            /\ cosine_sim3' = None
    /\ UNCHANGED <<build, hashseed, disk, req, resp, evals, calls, frames, chat, loader>>

\* the loading of backend/app.py and backend/app-.py, the matrices read from
\* the Dataset directory when their files load
Load_app_matrices ==
    /\ build \in {"app", "appd"} /\ phase = "boot"
    /\ phase' = "serving"
    /\ IF Loaded(disk.df) /\ Loaded(disk.pipeline)
       THEN /\ df' = disk.df.data
            /\ pipeline' = disk.pipeline.data
            /\ location_df' = IF Loaded(disk.location) THEN disk.location.data ELSE EmptyFrame
       ELSE /\ df' = EmptyFrame
            /\ pipeline' = None
            /\ location_df' = EmptyFrame
    /\ cosine_sim1' = IF Loaded(disk.sim1) THEN NdArray(disk.sim1.data) ELSE EmptyArray
    /\ cosine_sim2' = IF Loaded(disk.sim2) THEN NdArray(disk.sim2.data) ELSE EmptyArray
    /\ cosine_sim3' = IF Loaded(disk.sim3) THEN NdArray(disk.sim3.data) ELSE EmptyArray
    /\ UNCHANGED <<build, hashseed, disk, req, resp, evals, calls, frames, chat, loader>>

\* backend/app.py 62-114 and backend/app-.py 64-134: one outer try around
\* df and pipeline, an inner try around location_df; the matrices are never
\* read from disk.
Load_app ==
    /\ build \in {"app", "appd"} /\ phase = "boot"
    /\ phase' = "serving"
    /\ IF Loaded(disk.df) /\ Loaded(disk.pipeline)
       THEN /\ df' = disk.df.data
            /\ pipeline' = disk.pipeline.data
            /\ location_df' = IF Loaded(disk.location) THEN disk.location.data ELSE EmptyFrame
       ELSE /\ df' = EmptyFrame
            /\ pipeline' = None
            /\ location_df' = EmptyFrame
    /\ cosine_sim1' = EmptyArray
    /\ cosine_sim2' = EmptyArray
    /\ cosine_sim3' = EmptyArray
    /\ UNCHANGED <<build, hashseed, disk, req, resp, evals, calls, frames, chat, loader>>

(***************************************************************************)
(* Numbers.                                                                *)
(***************************************************************************)
\* round(v / d) to the nearest integer, a tie to the even one (Python round)
RoundDiv(v, d) ==
    LET q == v \div d
        r == v % d
    IN  IF 2 * r < d THEN q
        ELSE IF 2 * r > d THEN q + 1
        ELSE IF q % 2 = 0 THEN q ELSE q + 1
\* round(price, 2): a price in 1/10000 crore rounded to 1/100 crore
Round2(v) == 100 * RoundDiv(v, 100)
\* round(score, 3): a score in 1/100000 rounded to 1/1000
Round3(v) == 100 * RoundDiv(v, 100)

RECURSIVE ExpSeries(_, _, _)
ExpSeries(x, k, term) ==
    IF k > ExpTerms THEN 0
    ELSE LET t == (term * x) \div (k * 100)
         IN  t + ExpSeries(x, k + 1, t)
\* np.expm1(x) = exp(x) - 1 = x + x^2/2! + x^3/3! + ..., x in 1/100,
\* the result in 1/10000
expm1(x) == ExpSeries(x, 1, One)

\* Python s[start:stop] for start >= 0; a negative stop counts from the end
PySlice(s, start, stop) ==
    LET n == Len(s)
        e == IF stop < 0 THEN Max(stop + n, 0) ELSE Min(stop, n)
    IN  IF start >= e THEN <<>> ELSE SubSeq(s, start + 1, e)

(***************************************************************************)
(* The HTTP layer: what the caller receives for a handler's outcome.       *)
(***************************************************************************)
NoRequest == [op |-> "none"]
NoResponse == [status |-> 0, detail |-> "", cause |-> "", body |-> <<>>]
Response(outcome) ==
    IF outcome.out = "return"
    THEN [status |-> 200, detail |-> "", cause |-> "", body |-> outcome.value]
    ELSE IF outcome.exc = "HTTPException"
    THEN [status |-> outcome.status, detail |-> outcome.detail,
          cause |-> outcome.cause, body |-> <<>>]
    ELSE [status |-> 500, detail |-> "Internal Server Error",
          cause |-> outcome.exc, body |-> <<>>]

(***************************************************************************)
(* Valuation.                                                              *)
(***************************************************************************)
\* pipeline.predict(one_df)[0]: the log-price of the single row
predict(p, input) ==
    IF p.kind # "Pipeline" THEN Error("AttributeError")
    ELSE IF input.sector \notin p.sectors \/ input.property_type \notin p.types
    THEN Error("ValueError")
    ELSE Return(p.intercept + (p.area_coef * input.built_up_area) \div 1000)

\* predict_price of main.py with its two checks in the other order
predict_price_type_first(input) ==
    IF input.property_type \notin {"flat", "house"}
    THEN HTTPException(400, "Invalid property type")
    ELSE IF "sector" \notin df.columns THEN Error("KeyError")
    ELSE IF input.sector \notin SeqToSet(df.col["sector"])
    THEN HTTPException(400, "Invalid sector")
    ELSE LET p == predict(pipeline, input)
         IN  IF p.out = "raise" THEN HTTPExceptionFrom(500, "Prediction error", p)
             ELSE LET base_price == expm1(p.value)
                  IN  Return([low_price_cr |-> Round2(base_price - ConfidenceInterval),
                              high_price_cr |-> Round2(base_price + ConfidenceInterval)])

\* main.py 47-76
predict_price_main(input) ==
    IF "sector" \notin df.columns THEN Error("KeyError")
    ELSE IF input.sector \notin SeqToSet(df.col["sector"])
    THEN HTTPException(400, "Invalid sector")
    ELSE IF input.property_type \notin {"flat", "house"}
    THEN HTTPException(400, "Invalid property type")
    ELSE LET p == predict(pipeline, input)
         IN  IF p.out = "raise" THEN HTTPExceptionFrom(500, "Prediction error", p)
             ELSE LET base_price == expm1(p.value)
                      low == base_price - ConfidenceInterval
                      high == base_price + ConfidenceInterval
                  IN  Return([low_price_cr |-> Round2(low),
                              high_price_cr |-> Round2(high)])

\* backend/app (1).py 479-509 and backend/app.py 210-240; now is the reading of
\* datetime.now()
predict_price_app1(input, now) ==
    LET try ==
          IF pipeline = None THEN HTTPException(500, "Model not loaded")
          ELSE LET p == predict(pipeline, input)
               IN  IF p.out = "raise" THEN p
                   ELSE LET base_price == expm1(p.value)
                            low_price == base_price - ConfidenceInterval
                            high_price == base_price + ConfidenceInterval
                        IN  Return([prediction_raw |-> base_price,
                                    low_price_cr |-> Round2(low_price),
                                    high_price_cr |-> Round2(high_price),
                                    formatted_range |->
                                        <<Round2(low_price), Round2(high_price)>>,
                                    timestamp |-> now])
    IN  IF try.out = "raise" THEN HTTPExceptionFrom(500, "Prediction error", try)
        ELSE try

\* backend/app-.py 305-345; now is the reading of datetime.now()
predict_price_appd(input, now) ==
    LET try ==
          IF pipeline = None
          THEN HTTPException(503, "ML model not loaded. Service temporarily unavailable.")
          ELSE LET p == predict(pipeline, input)
               IN  IF p.out = "raise" THEN p
                   ELSE LET base_price == expm1(p.value)
                            low_price == Max(LowFloor, base_price - ConfidenceInterval)
                            high_price == base_price + ConfidenceInterval
                        IN  Return([raw |-> base_price,
                                    low |-> Round2(low_price),
                                    high |-> Round2(high_price),
                                    formatted_range |->
                                        <<Round2(low_price), Round2(high_price)>>,
                                    best_estimate |-> Round2(base_price),
                                    timestamp |-> now])
    IN  IF try.out = "raise" THEN HTTPExceptionFrom(500, "Prediction failed", try)
        ELSE try

PropertyTypes == {"flat", "house", "villa"}
Sectors == {"sector 1", "sector 99"}
\* built_up_area: float, any sign
Areas == {-500, 1000, 2750}
PropertyInput ==
    [property_type : PropertyTypes, sector : Sectors, built_up_area : Areas]
\* readings of the wall clock
Times == {1, 2}

predict_price ==
    /\ phase = "serving"
    /\ \E input \in PropertyInput, now \in Times :
         /\ req' = [op |-> "predict_price", input |-> input]
         /\ resp' = Response(CASE build = "main" -> predict_price_main(input)
                               [] build \in {"app1", "app"} -> predict_price_app1(input, now)
                               [] build = "appd" -> predict_price_appd(input, now))
    /\ UNCHANGED <<build, hashseed, phase, disk, artifacts, evals, calls, frames, chat, loader>>

(***************************************************************************)
(* Recommendation.                                                         *)
(***************************************************************************)
\* 0.5 * cosine_sim1 + 0.8 * cosine_sim2 + 1.0 * cosine_sim3 on square
\* arrays of dimension >= 2: numpy raises ValueError for unequal shapes
CombinedMatrix(a1, a2, a3) ==
    IF Len(a1.rows) # Len(a2.rows) \/ Len(a2.rows) # Len(a3.rows)
    THEN Error("ValueError")
    ELSE Return([i \in 1..Len(a1.rows) |->
                   [j \in 1..Len(a1.rows) |->
                      Weight1 * a1.rows[i][j] + Weight2 * a2.rows[i][j]
                        + Weight3 * a3.rows[i][j]]])

\* location_df.index.get_loc(name), 1-based
GetLoc(index, name) == CHOOSE i \in 1..Len(index) : index[i] = name

RemoveAt(s, i) == SubSeq(s, 1, i - 1) \o SubSeq(s, i + 1, Len(s))

\* the pairs left in row order, the sort forgotten
Unsorted(s) == s

\* a descending sort that is not stable: of equal scores the last comes first
\* (sorted(pairs, key=lambda x: x[1])[::-1])
RECURSIVE SortedDescReversed(_)
SortedDescReversed(s) ==
    IF s = <<>> THEN <<>>
    ELSE LET m == CHOOSE i \in 1..Len(s) :
                    /\ \A j \in 1..Len(s) : s[j][2] <= s[i][2]
                    /\ \A j \in (i + 1)..Len(s) : s[j][2] < s[i][2]
         IN  <<s[m]>> \o SortedDescReversed(RemoveAt(s, m))

\* sorted(pairs, key=lambda x: x[1], reverse=True): stable, so equal scores
\* keep their original order
RECURSIVE SortedDesc(_)
SortedDesc(s) ==
    IF s = <<>> THEN <<>>
    ELSE LET m == CHOOSE i \in 1..Len(s) :
                    /\ \A j \in 1..Len(s) : s[j][2] <= s[i][2]
                    /\ \A j \in 1..(i - 1) : s[j][2] < s[i][2]
         IN  <<s[m]>> \o SortedDesc(RemoveAt(s, m))

\* the slice written sorted_scores[1:top_n]: one entry short
TopSliceShort(sorted_scores, top_n) == PySlice(sorted_scores, 1, top_n)

\* sorted_scores[1:top_n + 1]: the entries after the first, top_n of them
TopSlice(sorted_scores, top_n) == PySlice(sorted_scores, 1, top_n + 1)

\* sim_scores .. top_properties of recommend_properties_with_scores:
\* enumerate the row, sort, take sorted_scores[1:top_n + 1], map the
\* positions back to names with location_df.index[top_indices]
TopSimilar(matrix, index, property_name, top_n) ==
    LET idx == GetLoc(index, property_name)
    IN  IF idx > Len(matrix) THEN Error("IndexError")
        ELSE LET sim_scores == [j \in 1..Len(matrix[idx]) |-> <<j, matrix[idx][j]>>]
                 sorted_scores == SortedDesc(sim_scores)
                 top == TopSlice(sorted_scores, top_n)
             IN  IF \E k \in 1..Len(top) : top[k][1] > Len(index)
                 THEN Error("IndexError")
                 ELSE Return([k \in 1..Len(top) |->
                                [PropertyName |-> index[top[k][1]],
                                 SimilarityScore |-> top[k][2]]])

\* round(score, 3) on every entry of a returned list
Rounded(outcome) ==
    IF outcome.out = "raise" THEN outcome
    ELSE Return([k \in 1..Len(outcome.value) |->
                   [outcome.value[k] EXCEPT !.SimilarityScore = Round3(@)]])

\* main.py 79-103
recommend_apartments_main(input) ==
    LET c == CombinedMatrix(cosine_sim1, cosine_sim2, cosine_sim3)
        try ==
          IF c.out = "raise" THEN c
          ELSE IF input.property_name \notin SeqToSet(location_df.index)
          THEN HTTPException(404, "Property not found")
          ELSE TopSimilar(c.value, location_df.index, input.property_name,
                          input.top_n)
    IN  IF try.out = "return" THEN Return([recommendations |-> try.value])
        ELSE IF try.exc = "HTTPException" THEN try
        ELSE HTTPExceptionFrom(500, "Recommendation error", try)

\* backend/app (1).py 602-641
recommend_apartments_app1(input) ==
    LET try ==
          IF IsEmpty(location_df) THEN HTTPException(500, "Location data not loaded")
          ELSE IF \E sim \in {cosine_sim1, cosine_sim2, cosine_sim3} : sim = None
          THEN HTTPException(500, "Similarity matrices not loaded")
          ELSE IF input.property_name \notin SeqToSet(location_df.index)
          THEN HTTPException(404, "Apartment not found in dataset")
          ELSE LET c == CombinedMatrix(cosine_sim1, cosine_sim2, cosine_sim3)
               IN  IF c.out = "raise" THEN c
                   ELSE Rounded(TopSimilar(c.value, location_df.index,
                                           input.property_name, input.top_n))
    IN  IF try.out = "return" THEN try
        ELSE IF try.exc = "HTTPException" THEN try
        ELSE HTTPExceptionFrom(500, "", try)

\* all_properties.remove(property_name): the first occurrence
Remove(s, x) == RemoveAt(s, CHOOSE i \in 1..Len(s) : s[i] = x /\ \A j \in 1..(i - 1) : s[j] # x)

SampleRecommendationsApp ==
    << [PropertyName |-> "Emaar Palm Gardens", SimilarityScore |-> 95000],
       [PropertyName |-> "The Leaf Residences", SimilarityScore |-> 87000],
       [PropertyName |-> "Coralwood Apartments", SimilarityScore |-> 82000],
       [PropertyName |-> "Wembley Estate", SimilarityScore |-> 78000],
       [PropertyName |-> "Sobha International", SimilarityScore |-> 75000] >>

\* backend/app.py 704-735; similarities is the draw of
\* np.random.uniform(0.5, 0.95, len(all_properties))
recommend_properties_app(input, similarities) ==
    LET try ==
          IF IsEmpty(location_df) THEN Return(SampleRecommendationsApp)
          ELSE IF input.property_name \notin SeqToSet(location_df.index)
          THEN HTTPException(400, "Property not found")
          ELSE LET all_properties == Remove(location_df.index, input.property_name)
                   results == SortedDesc([k \in 1..Len(all_properties) |->
                                            <<all_properties[k], similarities[k]>>])
                   top == PySlice(results, 0, input.top_n)
               IN  Return([k \in 1..Len(top) |->
                             [PropertyName |-> top[k][1],
                              SimilarityScore |-> Round3(top[k][2])]])
    IN  IF try.out = "raise"
        THEN HTTPExceptionFrom(500, "Error generating recommendations", try)
        ELSE try

SampleRecommendationsAppd ==
    << [PropertyName |-> "DLF The Camellias", SimilarityScore |-> 95000],
       [PropertyName |-> "DLF The Crest", SimilarityScore |-> 89000],
       [PropertyName |-> "Park Place", SimilarityScore |-> 82000] >>

\* backend/app-.py 1036-1079 (the mock Price and Sector of an entry are left out)
recommend_properties_appd(input) ==
    LET try ==
          IF IsEmpty(location_df) \/ Size(cosine_sim1) = 0
          THEN Return(SampleRecommendationsAppd)
          ELSE IF input.property_name \notin SeqToSet(location_df.index)
          THEN HTTPException(400, "Property not found in database")
          ELSE LET c == CombinedMatrix(cosine_sim1, cosine_sim2, cosine_sim3)
                   t == IF c.out = "raise" THEN c
                        ELSE Rounded(TopSimilar(c.value, location_df.index,
                                                input.property_name, input.top_n))
                   all_properties == Remove(location_df.index, input.property_name)
                   fallback == PySlice(all_properties, 0, input.top_n)
               IN  IF c.out = "raise" THEN c
                   ELSE IF t.out = "return" THEN t
                   ELSE Return([k \in 1..Len(fallback) |->
                                  [PropertyName |-> fallback[k],
                                   SimilarityScore |-> 90000 - (k - 1) * 10000]])
    IN  IF try.out = "raise"
        THEN HTTPExceptionFrom(500, "Error generating recommendations", try)
        ELSE try

PropertyNames == SeqToSet(PropIndex) \cup {UnknownProperty}
TopNs == (-2)..(NumProps + 1)
RecommendationInput == [property_name : PropertyNames, top_n : TopNs]
\* the salt of str hashes, fixed when the interpreter starts (PYTHONHASHSEED)
HashSeeds == {0, 1}
\* hash(property_name) % 10000 under the salt of this process
Hash(property_name) ==
    LET code == IF \E i \in 1..Len(AllNames) : AllNames[i] = property_name
                THEN CHOOSE i \in 1..Len(AllNames) : AllNames[i] = property_name
                ELSE 0
    IN  (hashseed + code) % 10000
\* np.random.seed(seed); np.random.uniform(0.5, 0.95, n): the draws, between
\* 0.5 and 0.95, are a function of the seed
Uniform(seed, n) == [k \in 1..n |-> IF (seed + k) % 2 = 0 THEN 50000 ELSE 95000]

\* the call evaluates 0.5 * cosine_sim1 + 0.8 * cosine_sim2 + cosine_sim3:
\* main.py 82 on every call, ahead of the lookup of the property;
\* backend/app (1).py 616 and backend/app-.py 1050 once the checks passed
Combines(input) ==
    CASE build = "main" -> TRUE
      [] build = "app1" ->
           /\ ~IsEmpty(location_df)
           /\ \A sim \in {cosine_sim1, cosine_sim2, cosine_sim3} : sim # None
           /\ input.property_name \in SeqToSet(location_df.index)
      [] build = "appd" ->
           /\ ~(IsEmpty(location_df) \/ Size(cosine_sim1) = 0)
           /\ input.property_name \in SeqToSet(location_df.index)

recommend_apartments ==
    /\ phase = "serving"
    /\ build \in {"main", "app1", "appd"}
    /\ \E input \in RecommendationInput :
         /\ req' = [op |-> "recommend", property_name |-> input.property_name,
                    top_n |-> input.top_n]
         /\ resp' = Response(CASE build = "main" -> recommend_apartments_main(input)
                               [] build = "app1" -> recommend_apartments_app1(input)
                               [] build = "appd" -> recommend_properties_appd(input))
         /\ evals' = IF Combines(input) THEN Min(evals + 1, MaxEvals) ELSE evals
    /\ UNCHANGED <<build, hashseed, phase, disk, artifacts, calls, frames, chat, loader>>

\* recommend_properties, the property dropped from the table itself
\* (location_df.drop(property_name, inplace=True)) instead of from a copy
recommend_properties_inplace ==
    /\ phase = "serving"
    /\ build = "app"
    /\ \E input \in RecommendationInput :
         /\ req' = [op |-> "recommend", property_name |-> input.property_name,
                    top_n |-> input.top_n]
         /\ resp' = Response(recommend_properties_app(
                                input, Uniform(Hash(input.property_name),
                                               Len(location_df.index))))
         /\ location_df' =
              IF input.property_name \in SeqToSet(location_df.index)
              THEN LET i == GetLoc(location_df.index, input.property_name)
                   IN  [location_df EXCEPT
                          !.index = RemoveAt(@, i),
                          !.col = [l \in DOMAIN @ |-> RemoveAt(@[l], i)]]
              ELSE location_df
    /\ UNCHANGED <<build, hashseed, phase, disk, df, pipeline,
                   cosine_sim1, cosine_sim2, cosine_sim3, evals, calls, frames, chat, loader>>

recommend_properties ==
    /\ phase = "serving"
    /\ build = "app"
    /\ \E input \in RecommendationInput :
         /\ req' = [op |-> "recommend", property_name |-> input.property_name,
                    top_n |-> input.top_n]
         /\ resp' = Response(recommend_properties_app(
                                input, Uniform(Hash(input.property_name),
                                               Len(location_df.index))))
    /\ UNCHANGED <<build, hashseed, phase, disk, artifacts, evals, calls, frames, chat, loader>>

(***************************************************************************)
(* Radius search.                                                          *)
(***************************************************************************)
\* radius * 1000: kilometers (held in 1/1000 km) to meters
KmToMeters(radius) == (radius * 1000) \div 1000

\* the selected rows left in table order, sort_values() forgotten
TableOrder(s) == s

\* Series.sort_values(): ascending; rows of equal distance are kept in table
\* order here
RECURSIVE SortedAsc(_)
SortedAsc(s) ==
    IF s = <<>> THEN <<>>
    ELSE LET m == CHOOSE i \in 1..Len(s) :
                    /\ \A j \in 1..Len(s) : s[j][2] >= s[i][2]
                    /\ \A j \in 1..(i - 1) : s[j][2] > s[i][2]
         IN  <<s[m]>> \o SortedAsc(RemoveAt(s, m))

RECURSIVE Filter(_, _, _)
\* the <<name, meters>> rows of column c below the threshold, in table order
Filter(frame, c, threshold) ==
    IF Len(frame.index) = 0 THEN <<>>
    ELSE LET rest == Filter([frame EXCEPT !.index = Tail(@),
                                          !.col = [l \in DOMAIN @ |-> Tail(@[l])]],
                            c, threshold)
         IN  IF frame.col[c][1] < threshold
             THEN <<<<frame.index[1], frame.col[c][1]>>>> \o rest
             ELSE rest

\* the selection written with <= instead of <
NearbyInclusive(frame, location, radius) ==
    SortedAsc(Filter(frame, location, KmToMeters(radius) + 1))

\* location_df[location_df[location] < radius * 1000][location].sort_values()
Nearby(frame, location, radius) ==
    SortedAsc(Filter(frame, location, KmToMeters(radius)))

\* round(meters / 1000, 2), in 1/100 km
RoundKm2(meters) == RoundDiv(meters, 10)
\* round(meters / 1000, 1), in 1/100 km
RoundKm1(meters) == 10 * RoundDiv(meters, 100)

\* main.py 106-118
search_locations_main(input) ==
    IF input.location \notin location_df.columns
    THEN HTTPException(400, "Invalid location")
    ELSE IF input.radius <= 0
    THEN HTTPException(400, "Radius must be positive")
    ELSE LET result_ser == Nearby(location_df, input.location, input.radius)
         IN  Return([locations |->
                       [k \in 1..Len(result_ser) |->
                          [property |-> result_ser[k][1],
                           distance_km |-> RoundKm2(result_ser[k][2])]]])

\* backend/app (1).py 569-599
location_search_app1(input) ==
    IF IsEmpty(location_df) THEN HTTPException(500, "Location data not loaded")
    ELSE IF input.location \notin location_df.columns
    THEN HTTPException(400, "Invalid location")
    ELSE IF input.radius <= 0
    THEN HTTPException(400, "Radius must be positive")
    ELSE LET result_series == Nearby(location_df, input.location, input.radius)
         IN  Return([k \in 1..Len(result_series) |->
                       [property |-> result_series[k][1],
                        distance |-> RoundKm2(result_series[k][2])]])

SampleLocationsApp ==
    << [property |-> "Emaar Palm Gardens", distance |-> 50],
       [property |-> "The Coralwood", distance |-> 120],
       [property |-> "Wembley Estate", distance |-> 180] >>

\* backend/app.py 680-702
location_search_app(input) ==
    LET try ==
          IF IsEmpty(location_df) THEN Return(SampleLocationsApp)
          ELSE IF input.location \notin location_df.columns
          THEN HTTPException(400, "Invalid location")
          ELSE IF input.radius <= 0
          THEN HTTPException(400, "Radius must be positive")
          ELSE LET result_series == Nearby(location_df, input.location, input.radius)
                   results == [k \in 1..Len(result_series) |->
                                 [property |-> result_series[k][1],
                                  distance |-> RoundKm1(result_series[k][2])]]
               IN  Return(PySlice(results, 0, SearchLimitApp))
    IN  IF try.out = "raise"
        THEN HTTPExceptionFrom(500, "Error in location search", try)
        ELSE try

SampleLocationsAppd ==
    << [property |-> "DLF The Crest", distance |-> 50],
       [property |-> "Park Place", distance |-> 80],
       [property |-> "The Camellias", distance |-> 120] >>

\* backend/app-.py 1004-1034 (the constant "sector" of an entry is left out)
location_search_appd(input) ==
    LET try ==
          IF IsEmpty(location_df) THEN Return(SampleLocationsAppd)
          ELSE IF input.location \notin location_df.columns
          THEN HTTPException(400, "Location not found in database")
          ELSE IF input.radius <= 0
          THEN HTTPException(400, "Radius must be positive")
          ELSE LET result_series == Nearby(location_df, input.location, input.radius)
                   results == [k \in 1..Len(result_series) |->
                                 [property |-> result_series[k][1],
                                  distance |-> RoundKm2(result_series[k][2])]]
               IN  Return(PySlice(results, 0, SearchLimitAppd))
    IN  IF try.out = "raise"
        THEN HTTPExceptionFrom(500, "Error in location search", try)
        ELSE try

LocationNames == Locations \cup {UnknownLocation}
Radii == {-1000, 0, 1500, 3000}
LocationSearchInput == [location : LocationNames, radius : Radii]

\* the list of results of a successful search, whatever the file
SearchResults(r) == IF build = "main" THEN r.body.locations ELSE r.body
SearchDistance(entry) == IF build = "main" THEN entry.distance_km ELSE entry.distance

location_search ==
    /\ phase = "serving"
    /\ \E input \in LocationSearchInput :
         /\ req' = [op |-> "search", location |-> input.location,
                    radius |-> input.radius]
         /\ resp' = Response(CASE build = "main" -> search_locations_main(input)
                               [] build = "app1" -> location_search_app1(input)
                               [] build = "app" -> location_search_app(input)
                               [] build = "appd" -> location_search_appd(input))
    /\ UNCHANGED <<build, hashseed, phase, disk, artifacts, evals, calls, frames, chat, loader>>

(***************************************************************************)
(* Concurrent recommend calls of main.py and backend/app (1).py.  A call   *)
(* is a coroutine with a frame of its own: input and cosine_sim_matrix are *)
(* locals of the call, the three matrices and location_df are globals of   *)
(* the module.  The steps of the calls interleave freely, which covers the *)
(* event loop (a handler without await runs to completion) and a pool of   *)
(* threads alike.                                                          *)
(***************************************************************************)
Clients == 1..NumClients
NoInput == [property_name |-> "", top_n |-> 0]
Idle == [pc |-> "idle", request |-> NoInput]
NoLocals == [input |-> NoInput, matrix |-> None]

\* one frame for all calls: the locals as globals of the module
SharedFrame(c) == 1
\* the frame of call c
OwnFrame(c) == c
Locals(c) == frames[OwnFrame(c)]

ConcurrentInputs ==
    { [property_name |-> PropIndex[1], top_n |-> 1],
      [property_name |-> PropIndex[2], top_n |-> 2],
      [property_name |-> UnknownProperty, top_n |-> 1] }

\* the request is bound to the parameters of the call
Begin(c) ==
    /\ phase = "serving" /\ build \in {"main", "app1"}
    /\ calls[c].pc = "idle"
    /\ \E input \in ConcurrentInputs :
         /\ calls' = [calls EXCEPT ![c] = [pc |-> "called", request |-> input]]
         /\ frames' = [frames EXCEPT ![OwnFrame(c)] =
                                      [input |-> input, matrix |-> None]]
    /\ UNCHANGED <<build, hashseed, phase, disk, artifacts, req, resp, evals, chat, loader>>

\* backend/app (1).py 606-613, the checks ahead of the combination
checks_app1(input) ==
    IF IsEmpty(location_df) THEN HTTPException(500, "Location data not loaded")
    ELSE IF \E sim \in {cosine_sim1, cosine_sim2, cosine_sim3} : sim = None
    THEN HTTPException(500, "Similarity matrices not loaded")
    ELSE IF input.property_name \notin SeqToSet(location_df.index)
    THEN HTTPException(404, "Apartment not found in dataset")
    ELSE Return(<<>>)

\* main.py 82, backend/app (1).py 616: cosine_sim_matrix = ...
Combine(c) ==
    /\ calls[c].pc = "called"
    /\ build = "app1" => checks_app1(Locals(c).input).out = "return"
    /\ calls' = [calls EXCEPT ![c].pc = "combined"]
    /\ frames' = [frames EXCEPT ![OwnFrame(c)].matrix =
                     CombinedMatrix(cosine_sim1, cosine_sim2, cosine_sim3)]
    /\ evals' = Min(evals + 1, MaxEvals)
    /\ UNCHANGED <<build, hashseed, phase, disk, artifacts, req, resp, chat, loader>>

\* main.py 83-103, the rest of the handler once line 82 has run
rank_main(c, input) ==
    LET try ==
          IF c.out = "raise" THEN c
          ELSE IF input.property_name \notin SeqToSet(location_df.index)
          THEN HTTPException(404, "Property not found")
          ELSE TopSimilar(c.value, location_df.index, input.property_name,
                          input.top_n)
    IN  IF try.out = "return" THEN Return([recommendations |-> try.value])
        ELSE IF try.exc = "HTTPException" THEN try
        ELSE HTTPExceptionFrom(500, "Recommendation error", try)

\* backend/app (1).py 619-641, the rest of the handler once line 616 has run
rank_app1(c, input) ==
    LET try ==
          IF c.out = "raise" THEN c
          ELSE Rounded(TopSimilar(c.value, location_df.index,
                                  input.property_name, input.top_n))
    IN  IF try.out = "return" THEN try
        ELSE IF try.exc = "HTTPException" THEN try
        ELSE HTTPExceptionFrom(500, "", try)

\* what call c is about to answer
Result(c) ==
    IF calls[c].pc = "called" THEN checks_app1(Locals(c).input)
    ELSE IF build = "main" THEN rank_main(Locals(c).matrix, Locals(c).input)
    ELSE rank_app1(Locals(c).matrix, Locals(c).input)

\* the call answers its client and its frame is dropped
Finish(c) ==
    /\ \/ calls[c].pc = "combined"
       \/ /\ calls[c].pc = "called" /\ build = "app1"
          /\ checks_app1(Locals(c).input).out = "raise"
    /\ req' = [op |-> "recommend",
               property_name |-> calls[c].request.property_name,
               top_n |-> calls[c].request.top_n]
    /\ resp' = Response(Result(c))
    /\ calls' = [calls EXCEPT ![c] = Idle]
    /\ frames' = [frames EXCEPT ![OwnFrame(c)] = NoLocals]
    /\ UNCHANGED <<build, hashseed, phase, disk, artifacts, evals, chat, loader>>

(***************************************************************************)
(* The research assistant (src/AI-LLM/app .py): split_text.  A str is a    *)
(* sequence of characters.                                                 *)
(***************************************************************************)
NoChat == [fn |-> "none"]
Chars == {"a", " "}
Texts == UNION {[1..n -> Chars] : n \in 0..MaxText}

\* str.split(): the maximal runs of characters that are not whitespace
RECURSIVE SplitFrom(_, _, _)
SplitFrom(text, k, word) ==
    IF k > Len(text) THEN (IF word = <<>> THEN <<>> ELSE <<word>>)
    ELSE IF text[k] = " "
    THEN (IF word = <<>> THEN <<>> ELSE <<word>>) \o SplitFrom(text, k + 1, <<>>)
    ELSE SplitFrom(text, k + 1, Append(word, text[k]))
split(text) == SplitFrom(text, 1, <<>>)

\* " ".join(ws)
RECURSIVE Join(_)
Join(ws) ==
    IF ws = <<>> THEN <<>>
    ELSE IF Len(ws) = 1 THEN ws[1]
    ELSE ws[1] \o <<" ">> \o Join(Tail(ws))

\* Python s[start:stop] for any integers: a negative bound counts from the end
Slice(s, start, stop) ==
    LET n == Len(s)
        b == IF start < 0 THEN Max(start + n, 0) ELSE Min(start, n)
        e == IF stop < 0 THEN Max(stop + n, 0) ELSE Min(stop, n)
    IN  IF b >= e THEN <<>> ELSE SubSeq(s, b + 1, e)

\* the step that also skips overlap words
Skip(i, chunk_size, overlap) == i + chunk_size + overlap
\* i += chunk_size - overlap
Advance(i, chunk_size, overlap) == i + chunk_size - overlap

\* split_text 68-74: the two early returns and words = text.split()
split_text_call ==
    /\ chat.fn = "split_text" /\ chat.pc = "call"
    /\ chat' = IF chat.text = <<>> \/ split(chat.text) = <<>>
               THEN [chat EXCEPT !.pc = "done"]
               ELSE [chat EXCEPT !.pc = "while", !.words = split(chat.text)]
    /\ UNCHANGED <<service, loader>>

\* split_text 78-84: one test of the while condition and one pass of the body
split_text_loop ==
    /\ chat.fn = "split_text" /\ chat.pc = "while"
    /\ Len(chat.chunks) < MaxIter
    /\ chat' =
         IF chat.i < Len(chat.words)
         THEN LET chunk == Join(Slice(chat.words, chat.i, chat.i + chat.chunk_size))
                  i == Advance(chat.i, chat.chunk_size, chat.overlap)
              IN  [chat EXCEPT !.chunks = Append(@, chunk), !.i = i,
                               !.pc = IF i >= Len(chat.words) THEN "done"
                                                              ELSE "while"]
         ELSE [chat EXCEPT !.pc = "done"]
    /\ UNCHANGED <<service, loader>>

(***************************************************************************)
(* The research assistant: format_response.  A str is a sequence of        *)
(* tokens: a word, a blank, a colon, a newline or a two-character number.  *)
(***************************************************************************)
SectionNames ==
    << "KEY CONCEPT", "MATHEMATICAL FORMULATION", "MATHEMATICAL INTUITION",
       "PRACTICAL IMPLICATIONS", "SUMMARY" >>
\* the characters of a section name
NameText(section) ==
    CASE section = "KEY CONCEPT" -> <<"KEY", " ", "CONCEPT">>
      [] section = "MATHEMATICAL FORMULATION" -> <<"MATHEMATICAL", " ", "FORMULATION">>
      [] section = "MATHEMATICAL INTUITION" -> <<"MATHEMATICAL", " ", "INTUITION">>
      [] section = "PRACTICAL IMPLICATIONS" -> <<"PRACTICAL", " ", "IMPLICATIONS">>
      [] section = "SUMMARY" -> <<"SUMMARY">>
Placeholder == <<"*Information not specified in response*">>

\* str.upper()
Upper(token) ==
    CASE token = "summary" -> "SUMMARY"
      [] token = "x" -> "X"
      [] token = "y" -> "Y"
      [] OTHER -> token
upper(line) == [k \in 1..Len(line) |-> Upper(line[k])]
\* str.startswith(prefix)
startswith(line, prefix) ==
    Len(line) >= Len(prefix) /\ SubSeq(line, 1, Len(prefix)) = prefix
\* sub in line
contains(line, sub) ==
    \E k \in 1..(Len(line) - Len(sub) + 1) : SubSeq(line, k, k + Len(sub) - 1) = sub
\* str.lstrip(chars)
RECURSIVE lstrip(_, _)
lstrip(line, chars) ==
    IF line # <<>> /\ line[1] \in chars THEN lstrip(Tail(line), chars) ELSE line
RECURSIVE rstrip(_, _)
rstrip(line, chars) ==
    IF line # <<>> /\ line[Len(line)] \in chars
    THEN rstrip(SubSeq(line, 1, Len(line) - 1), chars) ELSE line
\* str.strip()
strip(line) == rstrip(lstrip(line, {" "}), {" "})

\* raw.split('\n'): one more piece than there are newlines
RECURSIVE SplitLines(_, _, _)
SplitLines(raw, k, line) ==
    IF k > Len(raw) THEN <<line>>
    ELSE IF raw[k] = "\n" THEN <<line>> \o SplitLines(raw, k + 1, <<>>)
    ELSE SplitLines(raw, k + 1, Append(line, raw[k]))
RECURSIVE JoinLines(_)
JoinLines(ls) ==
    IF ls = <<>> THEN <<>>
    ELSE IF Len(ls) = 1 THEN ls[1]
    ELSE ls[1] \o <<"\n">> \o JoinLines(Tail(ls))

\* format_response 133-137: the first section whose name starts the line
NameHeader(line) ==
    LET found == {j \in 1..Len(SectionNames) :
                    startswith(upper(line), NameText(SectionNames[j]))}
    IN  IF found = {} THEN "None"
        ELSE SectionNames[CHOOSE j \in found : \A h \in found : j <= h]

\* format_response 140-154: a number and a keyword
NumberedHeader(line) ==
    IF startswith(line, <<"1.">>) /\ contains(upper(line), <<"KEY", " ", "CONCEPT">>)
    THEN "KEY CONCEPT"
    ELSE IF startswith(line, <<"2.">>) /\ contains(upper(line), <<"MATHEMATICAL">>)
    THEN "MATHEMATICAL FORMULATION"
    ELSE IF startswith(line, <<"3.">>) /\ contains(upper(line), <<"INTUITION">>)
    THEN "MATHEMATICAL INTUITION"
    ELSE IF startswith(line, <<"4.">>) /\ contains(upper(line), <<"PRACTICAL">>)
    THEN "PRACTICAL IMPLICATIONS"
    ELSE IF startswith(line, <<"5.">>) /\ contains(upper(line), <<"SUMMARY">>)
    THEN "SUMMARY"
    ELSE "None"

\* the section a stripped line starts, "None" for a line that is no header
HeaderOf(line) ==
    IF NameHeader(line) # "None" THEN NameHeader(line) ELSE NumberedHeader(line)

\* the line as it is added to a section: line[len(section):].lstrip(' :')
\* after a name, line[2:].lstrip() after a number
ContentOf(line) ==
    IF NameHeader(line) # "None"
    THEN lstrip(SubSeq(line, Len(NameText(NameHeader(line))) + 1, Len(line)),
                {" ", ":"})
    ELSE IF NumberedHeader(line) # "None"
    THEN lstrip(SubSeq(line, 2, Len(line)), {" "})
    ELSE line

\* the section forgotten at a line that is no header
Untracked(current_section, header) == header
\* current_section after a line
Tracked(current_section, header) ==
    IF header # "None" THEN header ELSE current_section

\* format_response 126-161: one pass of the loop over the lines
format_response_line ==
    /\ chat.fn = "format_response" /\ chat.pc = "for"
    /\ chat.k <= Len(chat.lines)
    /\ LET line == strip(chat.lines[chat.k])
           current_section == Tracked(chat.current_section, HeaderOf(line))
           content == ContentOf(line)
       IN  chat' =
             IF line = <<>> THEN [chat EXCEPT !.k = @ + 1]
             ELSE IF current_section # "None" /\ content # <<>>
             THEN [chat EXCEPT
                     !.k = @ + 1,
                     !.current_section = current_section,
                     !.sections[current_section] =
                        IF @ # <<>> THEN @ \o <<" ">> \o content ELSE content]
             ELSE [chat EXCEPT !.k = @ + 1, !.current_section = current_section]
    /\ UNCHANGED <<service, loader>>

\* format_response 163-171: the five sections in the order of the dict
format_response_return ==
    /\ chat.fn = "format_response" /\ chat.pc = "for"
    /\ chat.k > Len(chat.lines)
    /\ chat' = [chat EXCEPT
                  !.pc = "done",
                  !.formatted =
                     [j \in 1..Len(SectionNames) |->
                        LET content == chat.sections[SectionNames[j]]
                        IN  [section |-> SectionNames[j],
                             content |-> IF content # <<>> /\ strip(content) # <<>>
                                         THEN strip(content) ELSE Placeholder]]]
    /\ UNCHANGED <<service, loader>>

(***************************************************************************)
(* Health.                                                                 *)
(***************************************************************************)
\* backend/app (1).py 534-544; the fields about data_viz1.csv are left out
health_check_app1(now) ==
    Return([status |-> "healthy",
            model_loaded |-> pipeline # None,
            data_loaded |-> ~IsEmpty(df),
            recommender_loaded |-> ~IsEmpty(location_df),
            timestamp |-> now])

\* backend/app.py 310-320; data_loaded, which also reads data_viz1.csv, is
\* left out
health_check_app(now) ==
    Return([status |-> "healthy",
            model_loaded |-> pipeline # None,
            timestamp |-> now])

health_check ==
    /\ phase = "serving"
    /\ build \in {"app1", "app"}
    /\ \E now \in Times :
         /\ req' = [op |-> "health"]
         /\ resp' = Response(IF build = "app1" THEN health_check_app1(now)
                                              ELSE health_check_app(now))
    /\ UNCHANGED <<build, hashseed, phase, disk, artifacts, evals, calls, frames, chat, loader>>

(***************************************************************************)
(* The service: any file, any state of the Dataset directory.              *)
(***************************************************************************)
\* the three matrix files: of this export, of an older export with one
\* property less, or missing
SimFiles ==
    LET cur(k) == File(DefaultSim(k, NumProps))
        old(k) == File(DefaultSim(k, NumProps - 1))
    IN  { <<cur(1), cur(2), cur(3)>>, <<old(1), old(2), old(3)>>,
          <<old(1), cur(2), cur(3)>>, <<Missing, cur(2), cur(3)>>,
          <<cur(1), cur(2), Missing>>, <<Missing, Missing, Missing>> }

DiskStates ==
    { [df |-> d, pipeline |-> p, location |-> l,
       sim1 |-> s[1], sim2 |-> s[2], sim3 |-> s[3]] :
        d \in {Missing, File(DfTable)},
        p \in {Missing, File(Pipeline(0)), File(PlaceholderPipeline)},
        l \in {Missing, Corrupt, File(LocTable), File(EmptyFrame)},
        s \in SimFiles }

Unloaded ==
    /\ hashseed \in (IF build = "app" THEN HashSeeds ELSE {0})
    /\ phase = "boot"
    /\ df = None /\ pipeline = None /\ location_df = None
    /\ cosine_sim1 = None /\ cosine_sim2 = None /\ cosine_sim3 = None
    /\ req = NoRequest /\ resp = NoResponse
    /\ evals = 0
    /\ calls = [c \in Clients |-> Idle]
    /\ frames = [c \in Clients |-> NoLocals]
    /\ chat = NoChat
    /\ loader = NoLoad

Init ==
    /\ build \in Builds
    /\ disk \in DiskStates
    /\ Unloaded

Load == Load_main \/ Load_app1 \/ Load_app

Next ==
    \/ Load
    \/ predict_price
    \/ recommend_apartments
    \/ recommend_properties
    \/ location_search
    \/ health_check

Spec == Init /\ [][Next]_vars

(***************************************************************************)
(* A complete export on disk, the pipeline ranging over regressors.        *)
(***************************************************************************)
\* intercepts of the regressor, log-price in 1/100
LogIntercepts == {-150, -30, -5, 0, 10, 100}

ExportWith(p, l, s1, s2, s3) ==
    [df |-> File(DfTable), pipeline |-> File(p), location |-> File(l),
     sim1 |-> File(s1), sim2 |-> File(s2), sim3 |-> File(s3)]

InitValuation ==
    /\ build \in Builds
    /\ disk \in {ExportWith(Pipeline(x), LocTable, DefaultSim(1, NumProps),
                            DefaultSim(2, NumProps), DefaultSim(3, NumProps)) :
                   x \in LogIntercepts}
    /\ Unloaded

NextValuation == Load \/ predict_price

SpecValuation == InitValuation /\ [][NextValuation]_vars

(***************************************************************************)
(* A complete export on disk, the three matrices ranging over SimFamily;   *)
(* main.py and backend/app (1).py, the files that rank by the matrices.    *)
(***************************************************************************)
InitRecommend ==
    /\ build \in {"main", "app1"}
    /\ disk \in {ExportWith(Pipeline(0), LocTable, s1, s2, s3) :
                   s1 \in SimFamily(NumProps), s2 \in SimFamily(NumProps),
                   s3 \in SimFamily(NumProps)}
    /\ Unloaded

NextRecommend == Load_main \/ Load_app1 \/ recommend_apartments

SpecRecommend == InitRecommend /\ [][NextRecommend]_vars

(***************************************************************************)
(* The shipped export on disk, recommend calls in flight at once.          *)
(***************************************************************************)
InitConcurrent ==
    /\ build \in {"main", "app1"}
    /\ disk = ExportWith(Pipeline(0), LocTable, DefaultSim(1, NumProps),
                         DefaultSim(2, NumProps), DefaultSim(3, NumProps))
    /\ Unloaded

NextConcurrent ==
    \/ Load_main
    \/ Load_app1
    \/ \E c \in Clients : Begin(c)
    \/ \E c \in Clients : Combine(c)
    \/ \E c \in Clients : Finish(c)

SpecConcurrent == InitConcurrent /\ [][NextConcurrent]_vars

(***************************************************************************)
(* The research assistant: split_text called on a text, a chunk_size and   *)
(* an overlap.  The interpreter keeps running the loop.                    *)
(***************************************************************************)
NoDataset ==
    [df |-> Missing, pipeline |-> Missing, location |-> Missing,
     sim1 |-> Missing, sim2 |-> Missing, sim3 |-> Missing]

InitSplit ==
    /\ build = "main" /\ disk = NoDataset
    /\ hashseed = 0 /\ phase = "boot"
    /\ df = None /\ pipeline = None /\ location_df = None
    /\ cosine_sim1 = None /\ cosine_sim2 = None /\ cosine_sim3 = None
    /\ req = NoRequest /\ resp = NoResponse
    /\ evals = 0
    /\ calls = [c \in Clients |-> Idle]
    /\ frames = [c \in Clients |-> NoLocals]
    /\ loader = NoLoad
    /\ chat \in { [fn |-> "split_text", pc |-> "call", text |-> text,
                    chunk_size |-> chunk_size, overlap |-> overlap,
                    words |-> <<>>, i |-> 0, chunks |-> <<>>] :
                     text \in Texts, chunk_size \in 0..MaxChunk,
                     overlap \in 0..MaxChunk }

NextSplit == split_text_call \/ split_text_loop

SpecSplit == InitSplit /\ [][NextSplit]_vars /\ WF_vars(NextSplit)

(***************************************************************************)
(* The research assistant: format_response called on a response of up to   *)
(* MaxLines lines.                                                         *)
(***************************************************************************)
SampleLines ==
    { <<"x">>,
      <<"KEY", " ", "CONCEPT", ":", " ", "x">>,
      <<"SUMMARY", ":">>,
      <<" ", "summary", " ", "y", " ">>,
      <<"2.", " ", "MATHEMATICAL", " ", "INTUITION">>,
      <<" ">>,
      <<"1.", " ", "x">>,
      <<"MATHEMATICAL", " ", "INTUITION", " ", "y">> }

Raws == {JoinLines(ls) : ls \in UNION {[1..n -> SampleLines] : n \in 0..MaxLines}}

InitFormat ==
    /\ build = "main" /\ disk = NoDataset
    /\ hashseed = 0 /\ phase = "boot"
    /\ df = None /\ pipeline = None /\ location_df = None
    /\ cosine_sim1 = None /\ cosine_sim2 = None /\ cosine_sim3 = None
    /\ req = NoRequest /\ resp = NoResponse
    /\ evals = 0
    /\ calls = [c \in Clients |-> Idle]
    /\ frames = [c \in Clients |-> NoLocals]
    /\ loader = NoLoad
    /\ \E raw \in Raws :
         chat = [fn |-> "format_response", pc |-> "for", raw |-> raw,
                 lines |-> SplitLines(raw, 1, <<>>), k |-> 1,
                 current_section |-> "None",
                 sections |-> [j \in {SectionNames[h] : h \in 1..Len(SectionNames)}
                                 |-> <<>>],
                 formatted |-> <<>>]

NextFormat == format_response_line \/ format_response_return

SpecFormat == InitFormat /\ [][NextFormat]_vars

(***************************************************************************)
(* load_pickle called on one file of the Dataset directory: absent,        *)
(* readable by joblib, readable by pickle only, or unreadable.             *)
(***************************************************************************)
LoadCall(file) == [pc |-> "call", file |-> file, attempts |-> <<>>,
                   outcome |-> None]

InitLoader ==
    /\ build = "app1" /\ disk = NoDataset
    /\ hashseed = 0 /\ phase = "boot"
    /\ df = None /\ pipeline = None /\ location_df = None
    /\ cosine_sim1 = None /\ cosine_sim2 = None /\ cosine_sim3 = None
    /\ req = NoRequest /\ resp = NoResponse
    /\ evals = 0
    /\ calls = [c \in Clients |-> Idle]
    /\ frames = [c \in Clients |-> NoLocals]
    /\ chat = NoChat
    /\ \/ loader \in {LoadCall(Missing), LoadCall(Corrupt)}
       \/ \E data \in {DfTable, LocTable, EmptyFrame}
                          \cup {LargeTable(step) : step \in {100, 200, 300}} :
             loader \in {LoadCall(File(data)), LoadCall(PickleOnly(data))}
       \/ \E data \in {Pipeline(x) : x \in LogIntercepts} :
             loader \in {LoadCall(File(data)), LoadCall(PickleOnly(data))}
       \/ loader \in {LoadCall(File(PlaceholderPipeline)),
                       LoadCall(PickleOnly(PlaceholderPipeline))}
       \/ \E data \in SimFamily(NumProps) :
             loader \in {LoadCall(File(data)), LoadCall(PickleOnly(data))}

NextLoader == load_pickle_exists \/ load_pickle_joblib \/ load_pickle_pickle

SpecLoader == InitLoader /\ [][NextLoader]_vars

(***************************************************************************)
(* A complete export on disk, the Loc_A column ranging over distances;     *)
(* main.py and backend/app (1).py.                                         *)
(***************************************************************************)
DistVals == {500, 1496, 1500}

InitSearch ==
    /\ build \in {"main", "app1"}
    /\ disk \in {ExportWith(Pipeline(0), Frame(colA, ColB), DefaultSim(1, NumProps),
                            DefaultSim(2, NumProps), DefaultSim(3, NumProps)) :
                   colA \in [1..NumProps -> DistVals]}
    /\ Unloaded

NextSearch == Load_main \/ Load_app1 \/ location_search

SpecSearch == InitSearch /\ [][NextSearch]_vars

(***************************************************************************)
(* A complete export on disk whose distance table has more rows than any   *)
(* fixed page; every file.                                                 *)
(***************************************************************************)
LargeSteps == {100, 200, 300}

InitSearchLarge ==
    /\ build \in Builds
    /\ disk \in {ExportWith(Pipeline(0), LargeTable(step), DefaultSim(1, NumProps),
                            DefaultSim(2, NumProps), DefaultSim(3, NumProps)) :
                   step \in LargeSteps}
    /\ Unloaded

NextSearchLarge == Load \/ location_search

SpecSearchLarge == InitSearchLarge /\ [][NextSearchLarge]_vars

(***************************************************************************)
(* Reading requests and responses.                                         *)
(***************************************************************************)
Served(op) == phase = "serving" /\ req.op = op
Succeeded(op) == Served(op) /\ resp.status = 200

\* the price range of a successful valuation
LowOf(r) == IF build = "appd" THEN r.body.low ELSE r.body.low_price_cr
HighOf(r) == IF build = "appd" THEN r.body.high ELSE r.body.high_price_cr
\* the point estimate exp(x) - 1 of the request, x the pipeline's log-price
PointOf(r) == expm1(predict(pipeline, r.input).value)

\* the list of a successful recommendation
Recommendations(r) == IF build = "main" THEN r.body.recommendations ELSE r.body
RecommendedNames(r) ==
    {Recommendations(r)[k].PropertyName : k \in 1..Len(Recommendations(r))}

(***************************************************************************)
(* C1, price range invariant: every successful valuation has               *)
(* low <= point <= high and low > 0, point = exp(x) - 1.                   *)
(* The code breaks it: main.py and backend/app (1).py subtract 0.22 with   *)
(* no floor (low <= 0 for point <= 0.22), backend/app-.py floors low at    *)
(* 0.1 (low > point for point < 0.1).                                      *)
(***************************************************************************)
C1_PriceRangeInvariant ==
    Succeeded("predict_price") =>
        /\ LowOf(resp) <= PointOf(req)
        /\ PointOf(req) <= HighOf(resp)
        /\ LowOf(resp) > 0

(***************************************************************************)
(* C2, self-exclusion: a successful recommend(property_id, top_n) with     *)
(* property_id in the index and top_n >= 1 never lists property_id.        *)
(* The code drops the first entry of the sorted row, which is another      *)
(* property when that one ties with the query and precedes it.             *)
(***************************************************************************)
C2_SelfExclusion ==
    (/\ Succeeded("recommend")
     /\ req.property_name \in SeqToSet(location_df.index)
     /\ req.top_n >= 1)
    => req.property_name \notin RecommendedNames(resp)

(***************************************************************************)
(* C3, radius strictness.  The claim as written: every distance_km of a    *)
(* successful search with radius_km > 0, after rounding, is strictly less  *)
(* than radius_km.  A row stored at 1496 m is selected by radius 1.5 and   *)
(* reported as round(1.496, 2) = 1.5.                                      *)
(***************************************************************************)
C3_RadiusStrict ==
    (Succeeded("search") /\ req.radius > 0) =>
        \A k \in 1..Len(SearchResults(resp)) :
            10 * SearchDistance(SearchResults(resp)[k]) < req.radius

\* the stored distance, in meters, of a returned entry
StoredMeters(entry) ==
    location_df.col[req.location][GetLoc(location_df.index, entry.property)]

(***************************************************************************)
(* C3 as amended: every returned row's stored distance is strictly less    *)
(* than radius_km * 1000 meters, and the reported distance_km is that      *)
(* distance rounded to 2 decimals: within 0.005 km of it, hence below      *)
(* radius_km + 0.005.                                                      *)
(***************************************************************************)
C3_StoredDistanceStrict ==
    (Succeeded("search") /\ req.radius > 0) =>
        \A k \in 1..Len(SearchResults(resp)) :
            LET entry == SearchResults(resp)[k]
                d == SearchDistance(entry)
                m == StoredMeters(entry)
            IN  /\ m < KmToMeters(req.radius)
                /\ 10 * d - 5 <= m /\ m <= 10 * d + 5
                /\ 10 * d < req.radius + 5

\* a search reported a row at exactly the radius
C3_ReportedAtRadius ==
    /\ Succeeded("search") /\ req.radius > 0
    /\ \E k \in 1..Len(SearchResults(resp)) :
         /\ 10 * SearchDistance(SearchResults(resp)[k]) = req.radius
         /\ StoredMeters(SearchResults(resp)[k]) < KmToMeters(req.radius)

(***************************************************************************)
(* The error kinds of the specification, as the caller sees them.          *)
(***************************************************************************)
ArtifactUnavailable(r) ==
    /\ r.status \in {500, 503}
    /\ r.detail \in {"Model not loaded",
                     "ML model not loaded. Service temporarily unavailable.",
                     "Location data not loaded", "Similarity matrices not loaded"}
UnknownIdentifier(r) ==
    /\ r.status \in {400, 404}
    /\ r.detail \in {"Invalid location", "Location not found in database",
                     "Property not found", "Apartment not found in dataset",
                     "Property not found in database"}
InvalidParameter(r) ==
    /\ r.status \in {400, 422}
    /\ r.detail \in {"Radius must be positive", "top_n must be positive"}

SimsOnDisk == Loaded(disk.sim1) /\ Loaded(disk.sim2) /\ Loaded(disk.sim3)
NoSimOnDisk == ~Loaded(disk.sim1) /\ ~Loaded(disk.sim2) /\ ~Loaded(disk.sim3)
\* a record the pipeline of the export accepts
ValidInput(input) ==
    input.sector \in {"sector 1", "sector 2"} /\ input.property_type \in {"flat", "house"}

(***************************************************************************)
(* C4, degradation isolation: when the three matrices fail to load and     *)
(* the property table and the pipeline load, the service starts, estimate  *)
(* succeeds for valid input and recommend fails with ArtifactUnavailable.  *)
(* main.py does not start; backend/app.py and backend/app-.py answer       *)
(* recommend with a list.                                                  *)
(***************************************************************************)
C4_DegradationIsolation ==
    (/\ phase # "boot" /\ NoSimOnDisk
     /\ Loaded(disk.df) /\ Loaded(disk.pipeline)
     /\ disk.pipeline.data.kind = "Pipeline")
    => /\ phase = "serving"
       /\ (req.op = "predict_price" /\ ValidInput(req.input)) => resp.status = 200
       /\ req.op = "recommend" => ArtifactUnavailable(resp)

(***************************************************************************)
(* C5, no fabricated results: with the distance table or the matrices not  *)
(* loaded, recommend and search return an error, never a list.             *)
(* backend/app.py and backend/app-.py return sample lists.                 *)
(***************************************************************************)
C5_NoFabricatedResults ==
    /\ (Served("search") /\ ~Loaded(disk.location)) => resp.status # 200
    /\ (Served("recommend") /\ (~Loaded(disk.location) \/ ~SimsOnDisk))
           => resp.status # 200

(***************************************************************************)
(* C6, the load-time consistency check fails closed: when the three        *)
(* matrices and the distance table all load and their row counts differ,   *)
(* every recommend call returns ArtifactUnavailable.  No file checks the   *)
(* row counts; a ranking over the wrong rows is returned.                  *)
(***************************************************************************)
C6_MismatchFailsClosed ==
    (/\ Served("recommend")
     /\ SimsOnDisk /\ Loaded(disk.location)
     /\ \E s \in {disk.sim1.data, disk.sim2.data, disk.sim3.data} :
            Len(s) # Len(disk.location.data.index))
    => ArtifactUnavailable(resp)

(***************************************************************************)
(* C7, result-count bound: recommend(property_id, top_n) with property_id  *)
(* one of the N properties and top_n >= 1 returns exactly                  *)
(* min(top_n, N - 1) entries.                                              *)
(***************************************************************************)
C7_ResultCount ==
    (/\ Served("recommend")
     /\ req.property_name \in SeqToSet(location_df.index)
     /\ req.top_n >= 1)
    => /\ resp.status = 200
       /\ Len(Recommendations(resp)) = Min(req.top_n, Len(location_df.index) - 1)

\* a recommend call that asked for more than the N - 1 other properties
C7_Truncated ==
    /\ Succeeded("recommend")
    /\ req.property_name \in SeqToSet(location_df.index)
    /\ req.top_n > Len(location_df.index) - 1
    /\ Len(location_df.index) > 1
    /\ Len(Recommendations(resp)) = Len(location_df.index) - 1

(***************************************************************************)
(* C8, non-positive top_n is rejected: recommend with top_n <= 0 returns   *)
(* InvalidParameter, never a list.  No file checks top_n: 0 gives an empty *)
(* list and -2 gives sorted_scores[1:-1].                                  *)
(***************************************************************************)
C8_NonPositiveTopNRejected ==
    (Served("recommend") /\ req.top_n <= 0) => InvalidParameter(resp)

(***************************************************************************)
(* C9, non-positive radius is rejected first: search with radius_km <= 0   *)
(* returns InvalidParameter for every location and every artifact state.   *)
(* Every file checks the table and the location before the radius.         *)
(***************************************************************************)
C9_NonPositiveRadiusRejectedFirst ==
    (Served("search") /\ req.radius <= 0)
    => resp.status = 400 /\ resp.detail = "Radius must be positive"

(***************************************************************************)
(* C10, error kinds reach the caller unchanged (backend/app.py and         *)
(* backend/app (1).py): with the engine's artifacts loaded, an unknown     *)
(* location or property yields UnknownIdentifier and a non-positive radius *)
(* yields InvalidParameter, not the generic 500.  backend/app.py raises    *)
(* them inside "try ... except Exception", which turns each into a 500.    *)
(***************************************************************************)
C10_ErrorKindsUnchanged ==
    (build \in {"app", "app1"} /\ phase = "serving" /\ ~IsEmpty(location_df)) =>
        /\ (req.op = "search" /\ req.location \notin location_df.columns)
               => UnknownIdentifier(resp)
        /\ (/\ req.op = "search" /\ req.location \in location_df.columns
            /\ req.radius <= 0)
               => InvalidParameter(resp)
        /\ (/\ req.op = "recommend" /\ cosine_sim1 # None
            /\ req.property_name \notin SeqToSet(location_df.index))
               => UnknownIdentifier(resp)

\* the rows of the table within the radius of the location
Qualifying(frame, location, radius) ==
    {frame.index[i] : i \in {j \in 1..Len(frame.index) :
                               frame.col[location][j] < KmToMeters(radius)}}

(***************************************************************************)
(* C11, search returns exactly the qualifying set: for a known location    *)
(* and radius_km > 0 the call succeeds and the returned properties are     *)
(* exactly the rows stored strictly below radius_km * 1000 meters, none    *)
(* omitted or truncated (an empty list when there is none).                *)
(* backend/app.py returns results[:10].                                    *)
(***************************************************************************)
C11_ExactQualifyingSet ==
    (/\ Served("search") /\ ~IsEmpty(location_df)
     /\ req.location \in location_df.columns /\ req.radius > 0)
    => /\ resp.status = 200
       /\ {SearchResults(resp)[k].property : k \in 1..Len(SearchResults(resp))}
             = Qualifying(location_df, req.location, req.radius)
       /\ Len(SearchResults(resp))
             = Cardinality(Qualifying(location_df, req.location, req.radius))

(***************************************************************************)
(* C12, valuation input validation: estimate rejects with InvalidParameter *)
(* (a 400 or 422 response) every record with a negative built_up_area.     *)
(* No file tests the numeric fields: the record goes to pipeline.predict   *)
(* and a price range comes back.                                           *)
(***************************************************************************)
C12_InputValidation ==
    (Served("predict_price") /\ req.input.built_up_area < 0)
    => resp.status \in {400, 422}

(***************************************************************************)
(* C13, valuation failure kinds are distinguishable: with the pipeline not *)
(* loaded, estimate fails with ArtifactUnavailable; when a loaded pipeline *)
(* rejects the record it fails with another error; no price range is       *)
(* returned in either case.  backend/app (1).py and backend/app-.py raise  *)
(* "Model not loaded" inside "try ... except Exception", and the caller    *)
(* receives the same 500 "Prediction error" as for a rejected record.      *)
(***************************************************************************)
C13_FailureKindsDistinct ==
    /\ (Served("predict_price") /\ pipeline = None) => ArtifactUnavailable(resp)
    /\ (/\ Served("predict_price") /\ pipeline # None
        /\ predict(pipeline, req.input).out = "raise")
       => resp.status # 200 /\ ~ArtifactUnavailable(resp)

\* the scores of a successful recommendation, in the order returned
Scores(r) == [k \in 1..Len(Recommendations(r)) |-> Recommendations(r)[k].SimilarityScore]

(***************************************************************************)
(* C14, ranking monotonicity: for every property and every top_n the       *)
(* scores returned by recommend are non-increasing from the first entry    *)
(* to the last.                                                            *)
(***************************************************************************)
C14_RankingMonotone ==
    Succeeded("recommend") =>
        \A k \in 1..(Len(Scores(resp)) - 1) : Scores(resp)[k] >= Scores(resp)[k + 1]

\* a ranking of two entries or more whose scores strictly decrease somewhere
C14_StrictlyDecreasing ==
    /\ Succeeded("recommend")
    /\ Len(Scores(resp)) >= 2
    /\ \E k \in 1..(Len(Scores(resp)) - 1) : Scores(resp)[k] > Scores(resp)[k + 1]

(***************************************************************************)
(* C15, radius sort order: for a known location and radius_km > 0 the      *)
(* results of search are in ascending order of distance, each entry not    *)
(* farther than the next, in the stored meters and in the reported         *)
(* kilometers.                                                             *)
(***************************************************************************)
C15_SearchAscending ==
    (Succeeded("search") /\ req.radius > 0) =>
        \A k \in 1..(Len(SearchResults(resp)) - 1) :
            LET a == SearchResults(resp)[k]
                b == SearchResults(resp)[k + 1]
            IN  /\ StoredMeters(a) <= StoredMeters(b)
                /\ SearchDistance(a) <= SearchDistance(b)

\* a search whose results come in another order than the rows of the table
C15_Reordered ==
    /\ Succeeded("search") /\ req.radius > 0
    /\ \E k \in 1..(Len(SearchResults(resp)) - 1) :
         LET a == SearchResults(resp)[k]
             b == SearchResults(resp)[k + 1]
         IN  /\ GetLoc(location_df.index, a.property) > GetLoc(location_df.index, b.property)
             /\ StoredMeters(a) < StoredMeters(b)

\* the combined row of the query of a recommend call, as the file reports its
\* cells (backend/app (1).py rounds them to 3 decimals)
QueryRow(r) ==
    LET row == CombinedMatrix(cosine_sim1, cosine_sim2, cosine_sim3).value[
                   GetLoc(location_df.index, r.property_name)]
    IN  [j \in 1..Len(row) |-> IF build = "main" THEN row[j] ELSE Round3(row[j])]

(***************************************************************************)
(* C16, weighted ranking: recommend(property_id, top_n) with top_n >= 1    *)
(* returns the top_n highest-scoring other properties of the row of        *)
(* 0.5*S1 + 0.8*S2 + 1.0*S3 for property_id: min(top_n, N - 1) entries,    *)
(* none of them property_id, each with its combined score, in              *)
(* non-increasing order, and no other property left out scores higher      *)
(* than one returned.  When another property ties with the query at the    *)
(* top of the row, the query itself is returned.                           *)
(***************************************************************************)
C16_WeightedRanking ==
    (/\ Succeeded("recommend")
     /\ req.property_name \in SeqToSet(location_df.index)
     /\ req.top_n >= 1)
    => LET R == Recommendations(resp)
           row == QueryRow(req)
           idx == GetLoc(location_df.index, req.property_name)
           loc(k) == GetLoc(location_df.index, R[k].PropertyName)
           returned == {loc(k) : k \in 1..Len(R)}
       IN  /\ Len(R) = Min(req.top_n, Len(row) - 1)
           /\ idx \notin returned
           /\ \A k \in 1..Len(R) : R[k].SimilarityScore = row[loc(k)]
           /\ \A k \in 1..(Len(R) - 1) : R[k].SimilarityScore >= R[k + 1].SimilarityScore
           /\ \A j \in (1..Len(row)) \ (returned \cup {idx}) :
                 \A k \in 1..Len(R) : row[j] <= R[k].SimilarityScore

(***************************************************************************)
(* C17, deterministic tie-breaking: two returned properties with equal     *)
(* combined score for the query row come in their original row order, the  *)
(* one with the lower row index first.                                     *)
(***************************************************************************)
C17_TiesInRowOrder ==
    (Succeeded("recommend") /\ req.property_name \in SeqToSet(location_df.index)) =>
        LET R == Recommendations(resp)
            row == CombinedMatrix(cosine_sim1, cosine_sim2, cosine_sim3).value[
                       GetLoc(location_df.index, req.property_name)]
            loc(k) == GetLoc(location_df.index, R[k].PropertyName)
        IN  \A k, l \in 1..Len(R) :
                (k < l /\ row[loc(k)] = row[loc(l)]) => loc(k) < loc(l)

\* a ranking that holds two properties of equal combined score
C17_TieReturned ==
    /\ Succeeded("recommend") /\ req.property_name \in SeqToSet(location_df.index)
    /\ \E k, l \in 1..Len(Recommendations(resp)) :
         /\ k < l
         /\ Recommendations(resp)[k].SimilarityScore
               = Recommendations(resp)[l].SimilarityScore
         /\ req.property_name \notin RecommendedNames(resp)

(***************************************************************************)
(* C18, fixed symmetric price band.  The claim as written: in every        *)
(* result high - point equals 0.22, and point - low equals 0.22 unless low *)
(* is clamped to the floor, and then low equals the floor.  The bounds are *)
(* returned rounded to 2 decimals: point = 0.0513 gives high = 0.27.       *)
(***************************************************************************)
C18_SymmetricBand ==
    Succeeded("predict_price") =>
        /\ HighOf(resp) - PointOf(req) = ConfidenceInterval
        /\ \/ PointOf(req) - LowOf(resp) = ConfidenceInterval
           \/ LowOf(resp) = LowFloor

(***************************************************************************)
(* C18 as amended: high is point + 0.22 and low is point - 0.22, each      *)
(* rounded to 2 decimals (within 0.005 of it), for every accepted input;   *)
(* only backend/app-.py clamps, and only when point - 0.22 is below the    *)
(* floor 0.1, and then low equals the floor.                               *)
(***************************************************************************)
C18_RoundedBand ==
    Succeeded("predict_price") =>
        LET point == PointOf(req)
            within(a, b) == a - b <= 50 /\ b - a <= 50
        IN  /\ within(HighOf(resp), point + ConfidenceInterval)
            /\ IF build = "appd" /\ point - ConfidenceInterval < LowFloor
               THEN LowOf(resp) = LowFloor
               ELSE within(LowOf(resp), point - ConfidenceInterval)

\* backend/app-.py clamped the low bound of a price range
C18_Clamped ==
    /\ Succeeded("predict_price") /\ build = "appd"
    /\ PointOf(req) - ConfidenceInterval < LowFloor
    /\ LowOf(resp) = LowFloor
    /\ HighOf(resp) > LowOf(resp)

(***************************************************************************)
(* C19, queries never mutate artifacts: once loading is over, every        *)
(* estimate, recommend and search call, succeeding or failing, leaves the  *)
(* property table, the pipeline, the distance table and the three          *)
(* matrices as they were.                                                  *)
(***************************************************************************)
C19_ArtifactsImmutable == [][phase = "serving" => UNCHANGED artifacts]_vars

\* backend/app.py ranked the properties of the loaded table, and the table
\* is still the one read from disk
C19_QueriedAndIntact ==
    /\ Succeeded("recommend") /\ build = "app"
    /\ req.property_name \in SeqToSet(location_df.index)
    /\ Loaded(disk.location) /\ location_df = disk.location.data
    /\ Len(Recommendations(resp)) >= 1

(***************************************************************************)
(* C20, purity of queries: a call with the same operation and the same     *)
(* input as the call before it (estimate, recommend or search), against    *)
(* the same loaded artifacts, returns                                      *)
(* the same result.  predict_price of backend/app (1).py, backend/app.py   *)
(* and backend/app-.py puts datetime.now() in its result.                  *)
(***************************************************************************)
C20_Purity ==
    [][(/\ phase = "serving" /\ req.op \in {"predict_price", "recommend", "search"}
        /\ req' = req) => resp' = resp]_vars

(***************************************************************************)
(* C21, artifacts load independently (backend/app.py, backend/app (1).py): *)
(* the process starts whatever fails to load, and every artifact whose     *)
(* file can be read is loaded, whatever happens to the others.             *)
(* backend/app (1).py reads the three matrices in one try; backend/app.py  *)
(* reads df and the pipeline in one try that also resets the distance      *)
(* table, and never reads the matrices.                                    *)
(***************************************************************************)
C21_IndependentLoads ==
    (build \in {"app", "app1"} /\ phase # "boot") =>
        /\ phase = "serving"
        /\ Loaded(disk.df) => df = disk.df.data
        /\ Loaded(disk.pipeline) => pipeline = disk.pipeline.data
        /\ Loaded(disk.location) => location_df = disk.location.data
        /\ Loaded(disk.sim1) => cosine_sim1 = NdArray(disk.sim1.data)
        /\ Loaded(disk.sim2) => cosine_sim2 = NdArray(disk.sim2.data)
        /\ Loaded(disk.sim3) => cosine_sim3 = NdArray(disk.sim3.data)

\* recommend can succeed: the distance table and the three matrices are loaded
CanRecommend ==
    /\ ~IsEmpty(location_df)
    /\ \A sim \in {cosine_sim1, cosine_sim2, cosine_sim3} : sim # None /\ Size(sim) > 0

(***************************************************************************)
(* C22, per-engine availability is reported truthfully: health reports an  *)
(* availability of the recommendation engine that is true exactly when the *)
(* distance table and the three matrices are loaded, and an availability   *)
(* of valuation that is true exactly when the pipeline is loaded.          *)
(* backend/app (1).py reports "not location_df.empty" and never looks at   *)
(* the matrices; backend/app.py reports nothing about the recommender.     *)
(***************************************************************************)
C22_AvailabilityTruthful ==
    Served("health") =>
        /\ "recommender_loaded" \in DOMAIN resp.body
        /\ resp.body.recommender_loaded = CanRecommend
        /\ resp.body.model_loaded = (pipeline # None)

(***************************************************************************)
(* C23, unavailable is distinguishable from empty, in backend/app (1).py:  *)
(* a distance table that failed to load is held as a value no successful   *)
(* load produces; search and recommend answer ArtifactUnavailable when the *)
(* table failed to load and never when it loaded with zero rows.  The code *)
(* holds a failed load as pd.DataFrame(), the value data_preparation.py    *)
(* writes to location_distance.pkl, and answers both cases alike.          *)
(***************************************************************************)
C23_UnavailableNotEmpty ==
    (build = "app1" /\ phase = "serving") =>
        /\ ~Loaded(disk.location) => location_df # EmptyFrame
        /\ (Served("search") \/ Served("recommend")) =>
             /\ ~Loaded(disk.location) => ArtifactUnavailable(resp)
             /\ (Loaded(disk.location) /\ IsEmpty(disk.location.data)) =>
                    ~ArtifactUnavailable(resp)

(***************************************************************************)
(* C24, the combined matrix is memoized: within one process the combined   *)
(* similarity matrix is evaluated by the first recommend call that needs   *)
(* it and by no later call.  evals counts the evaluations.                 *)
(***************************************************************************)
C24_ComputedOnce == evals <= 1

\* the answer of the handler run alone, from call to return
Alone(input) ==
    IF build = "main" THEN recommend_apartments_main(input)
    ELSE recommend_apartments_app1(input)

(***************************************************************************)
(* C25, race-tolerant derived state: under every interleaving of recommend *)
(* calls, a call that has combined holds a matrix equal to                 *)
(* 0.5 * S1 + 0.8 * S2 + 1.0 * S3 of the loaded matrices, is about to      *)
(* answer what the handler answers its request when run alone, and every   *)
(* answer delivered is the answer of the handler run alone.                *)
(***************************************************************************)
C25_RaceTolerant ==
    /\ \A c \in Clients :
         calls[c].pc = "combined" =>
           /\ Locals(c).matrix =
                CombinedMatrix(cosine_sim1, cosine_sim2, cosine_sim3)
           /\ Result(c) = Alone(calls[c].request)
    /\ req.op = "recommend" =>
         resp = Response(Alone([property_name |-> req.property_name,
                                top_n |-> req.top_n]))

\* two calls with different requests have both combined while a third answer
\* of the process has been delivered
C25_TwoInFlight ==
    /\ req.op = "recommend" /\ resp.status = 200
    /\ \E c, d \in Clients :
         /\ calls[c].pc = "combined" /\ calls[d].pc = "combined"
         /\ calls[c].request # calls[d].request
         /\ Result(c).out = "return" /\ Result(d).out = "return"

(***************************************************************************)
(* C26, in main.py predict_price checks its input in a fixed order: a      *)
(* sector absent from the property table is answered 400 'Invalid sector', *)
(* also when the property type is invalid too; otherwise a property type   *)
(* other than 'flat' and 'house' is answered 400 'Invalid property type';  *)
(* only when both checks pass does the pipeline run, and an exception of   *)
(* the pipeline is then answered 500 'Prediction error'.                   *)
(***************************************************************************)
C26_CheckOrder ==
    (build = "main" /\ Served("predict_price")) =>
        IF req.input.sector \notin SeqToSet(df.col["sector"])
        THEN resp.status = 400 /\ resp.detail = "Invalid sector"
        ELSE IF req.input.property_type \notin {"flat", "house"}
        THEN resp.status = 400 /\ resp.detail = "Invalid property type"
        ELSE IF predict(pipeline, req.input).out = "raise"
        THEN /\ resp.status = 500 /\ resp.detail = "Prediction error"
             /\ resp.cause = predict(pipeline, req.input).exc
        ELSE resp.status = 200

\* both the sector and the property type of the request are invalid
C26_BothInvalid ==
    /\ build = "main" /\ Served("predict_price")
    /\ req.input.sector \notin SeqToSet(df.col["sector"])
    /\ req.input.property_type \notin {"flat", "house"}
    /\ resp.detail = "Invalid sector"

(***************************************************************************)
(* C27, in backend/app-.py every path through module loading leaves        *)
(* cosine_sim1, cosine_sim2 and cosine_sim3 empty arrays, so               *)
(* recommend_properties answers the same three-entry sample list for every *)
(* property_name and every top_n and never reaches the unknown-property    *)
(* check or the weighted combination.                                      *)
(***************************************************************************)
C27_AlwaysSamples ==
    (build = "appd" /\ phase = "serving") =>
        /\ cosine_sim1 = EmptyArray /\ cosine_sim2 = EmptyArray
        /\ cosine_sim3 = EmptyArray
        /\ evals = 0
        /\ Served("recommend") =>
             /\ resp.status = 200
             /\ resp.body = SampleRecommendationsAppd
             /\ Len(resp.body) = 3

\* all files of the export load, the property asked for is not in the table
C27_UnknownPropertySampled ==
    /\ build = "appd" /\ Served("recommend")
    /\ Loaded(disk.df) /\ Loaded(disk.pipeline) /\ Loaded(disk.location)
    /\ Loaded(disk.sim1) /\ Loaded(disk.sim2) /\ Loaded(disk.sim3)
    /\ ~IsEmpty(location_df)
    /\ req.property_name = UnknownProperty
    /\ req.top_n = 1

\* the words of the text handed to split_text
Words == split(chat.text)
Step == chat.chunk_size - chat.overlap
Returned == chat.fn = "split_text" /\ chat.pc = "done"

\* the chunks split_text returns: chunk k starts at word k * Step, every word is in a chunk
C28_Chunks ==
    LET n == Len(Words)
    IN  IF n = 0 THEN chat.chunks = <<>>
        ELSE /\ Len(chat.chunks) >= 1
             /\ \A k \in 0..(Len(chat.chunks) - 1) :
                  /\ k * Step < n
                  /\ split(chat.chunks[k + 1]) =
                       SubSeq(Words, k * Step + 1, Min(k * Step + chat.chunk_size, n))
                  /\ Len(split(chat.chunks[k + 1])) <= chat.chunk_size
             /\ \A w \in 1..n :
                  \E k \in 0..(Len(chat.chunks) - 1) :
                     k * Step < w /\ w <= k * Step + chat.chunk_size

C28_Safety ==
    /\ (Returned /\ (Words = <<>> \/ chat.chunk_size > chat.overlap)) => C28_Chunks
    /\ (chat.fn = "split_text" /\ Words # <<>> /\ chat.overlap >= chat.chunk_size) =>
          /\ chat.pc # "done"
          /\ chat.pc = "while" => chat.i < Len(chat.words)

(***************************************************************************)
(* C28, split_text terminates and covers the text: for chunk_size >        *)
(* overlap >= 0 the call returns, chunk k starts at word k * (chunk_size - *)
(* overlap) and holds at most chunk_size words, every word is in a chunk,  *)
(* in the original order; a text without words yields the empty list; for  *)
(* overlap >= chunk_size and a text with words the call never returns and  *)
(* the while condition holds at every test.                                *)
(***************************************************************************)
C28_SplitText ==
    /\ []C28_Safety
    /\ <>(Returned \/ (Words # <<>> /\ chat.overlap >= chat.chunk_size))

\* three words in chunks of two with an overlap of one: three chunks, the
\* last of one word
C28_Overlapping ==
    /\ Returned
    /\ Len(Words) = 3 /\ chat.chunk_size = 2 /\ chat.overlap = 1
    /\ Len(chat.chunks) = 3
    /\ split(chat.chunks[3]) = <<Words[3]>>

\* line k of the response, stripped
LineAt(k) == strip(chat.lines[k])
\* the section named by the most recent header line at or before line k
SectionAt(k) ==
    LET headers == {h \in 1..k : LineAt(h) # <<>> /\ HeaderOf(LineAt(h)) # "None"}
    IN  IF headers = {} THEN "None"
        ELSE HeaderOf(LineAt(CHOOSE h \in headers : \A g \in headers : g <= h))
\* lines 1..k that belong to the section and have text left after their header
LinesOf(section, k) ==
    {h \in 1..k : /\ LineAt(h) # <<>> /\ SectionAt(h) = section
                  /\ ContentOf(LineAt(h)) # <<>>}
\* their texts in the order of the lines, a blank between two
RECURSIVE Gathered(_, _)
Gathered(section, k) ==
    IF k = 0 THEN <<>>
    ELSE IF k \notin LinesOf(section, k) THEN Gathered(section, k - 1)
    ELSE IF Gathered(section, k - 1) = <<>> THEN ContentOf(LineAt(k))
    ELSE Gathered(section, k - 1) \o <<" ">> \o ContentOf(LineAt(k))

Formatted == chat.fn = "format_response" /\ chat.pc = "done"

(***************************************************************************)
(* C29, format_response is a line-by-line section tracker: the text of     *)
(* each non-empty line (what is left of it after its header) is added to   *)
(* exactly one section, the one named by the most recent header line at or *)
(* before it; lines before the first recognised header are dropped; the    *)
(* output lists KEY CONCEPT, MATHEMATICAL FORMULATION, MATHEMATICAL        *)
(* INTUITION, PRACTICAL IMPLICATIONS, SUMMARY once each in that order,     *)
(* with the placeholder for a section that received nothing.               *)
(***************************************************************************)
C29_SectionTracker ==
    chat.fn = "format_response" =>
        /\ \A j \in 1..Len(SectionNames) :
             chat.sections[SectionNames[j]] =
                Gathered(SectionNames[j], Min(chat.k - 1, Len(chat.lines)))
        /\ \A h \in 1..Min(chat.k - 1, Len(chat.lines)) :
             (LineAt(h) # <<>> /\ ContentOf(LineAt(h)) # <<>>) =>
                Cardinality({j \in 1..Len(SectionNames) :
                               h \in LinesOf(SectionNames[j], h)})
                  = (IF SectionAt(h) = "None" THEN 0 ELSE 1)
        /\ Formatted =>
             /\ Len(chat.formatted) = 5
             /\ \A j \in 1..5 :
                  /\ chat.formatted[j].section = SectionNames[j]
                  /\ chat.formatted[j].content =
                       IF Gathered(SectionNames[j], Len(chat.lines)) = <<>>
                       THEN Placeholder
                       ELSE Gathered(SectionNames[j], Len(chat.lines))

\* a line dropped ahead of the first header, a header with text, a line that
\* follows it: one section holds two texts, the four others the placeholder
C29_TrackedLine ==
    /\ Formatted
    /\ Len(chat.lines) = 3
    /\ SectionAt(1) = "None" /\ LineAt(1) # <<>>
    /\ HeaderOf(LineAt(2)) = "KEY CONCEPT"
    /\ HeaderOf(LineAt(3)) = "None" /\ LineAt(3) # <<>>
    /\ chat.formatted[1].content = <<"x", " ", "x">>
    /\ \A j \in 2..5 : chat.formatted[j].content = Placeholder

(***************************************************************************)
(* C30, load_pickle tries the deserializers in a fixed order: for a file   *)
(* that does not exist it raises FileNotFoundError and runs no             *)
(* deserializer; otherwise it returns what joblib returns when joblib      *)
(* succeeds, and runs pickle only after joblib raised, returning what      *)
(* pickle returns or raising what pickle raises; a value it returns is     *)
(* what a deserializer read from the file, never a placeholder.            *)
(***************************************************************************)
C30_DeserializerOrder ==
    /\ loader.pc \in {"call", "joblib", "pickle", "done"} =>
         /\ loader.attempts \in {<<>>, <<"joblib">>, <<"joblib", "pickle">>}
         /\ loader.attempts = <<"joblib", "pickle">> =>
              joblib_load(loader.file).out = "raise"
    /\ loader.pc = "done" =>
         /\ loader.outcome = load_pickle(loader.file)
         /\ IF loader.file.st = "missing"
            THEN /\ loader.attempts = <<>>
                 /\ loader.outcome = Error("FileNotFoundError")
            ELSE IF joblib_load(loader.file).out = "return"
            THEN /\ loader.attempts = <<"joblib">>
                 /\ loader.outcome = joblib_load(loader.file)
            ELSE /\ loader.attempts = <<"joblib", "pickle">>
                 /\ loader.outcome = pickle_load(loader.file)
         /\ loader.outcome.out = "return" =>
              loader.outcome.value = loader.file.data

\* joblib raised and pickle read the file
C30_PickleFallback ==
    /\ loader.pc = "done"
    /\ loader.file.st = "pickle"
    /\ loader.attempts = <<"joblib", "pickle">>
    /\ loader.outcome.out = "return"

====
